---------------------------- MODULE Spec2Model ----------------------------
(***************************************************************************)
(* A model of the nanobanana Streamlit image generator.                    *)
(*                                                                         *)
(*   src/app.py                          the page script: main() is run    *)
(*                                       top to bottom once per browser    *)
(*                                       interaction (a "page run")        *)
(*   src/streamlit_auth_history_utils.py the login gate with a login       *)
(*                                       cookie and the history store      *)
(*                                       mirrored to one JSON file per     *)
(*                                       browser session identifier        *)
(*                                                                         *)
(* Text is a sequence of code points and a bytes object a sequence of      *)
(* octets, so strip, rstrip, base64 and the file-name sanitiser are        *)
(* computed, not assumed.  A Python value is a record [t, v]: its type     *)
(* name and its content.                                                   *)
(***************************************************************************)
EXTENDS Integers, Sequences, FiniteSets, TLC

(***************************************************************************)
(* Bounds of the model.                                                    *)
(***************************************************************************)
\* Most uuid4() values drawn in one behaviour (record ids, session ids).
MaxUuid == 2
\* Longest text and toggle input of the prompt composition taken alone.
MaxTextLen == 3

(***************************************************************************)
(* Python values.                                                          *)
(***************************************************************************)
PyNone == [t |-> "None", v |-> <<>>]

PyStr(s) == [t |-> "str", v |-> s]

PyBytes(b) == [t |-> "bytes", v |-> b]

PyBool(b) == [t |-> "bool", v |-> IF b THEN <<1>> ELSE <<0>>]

PyInt(n) == [t |-> "int", v |-> <<n>>]

\* bool(x) of a Python value: None, "", b"", False and 0 are falsy.
Truthy(x) ==
    CASE x.t = "None" -> FALSE
      [] x.t \in {"str", "bytes"} -> x.v # <<>>
      [] OTHER -> x.v # <<0>>

\* a or b
PyOr(a, b) == IF Truthy(a) THEN a ELSE b

(***************************************************************************)
(* str.strip() and str.rstrip() with no argument.                          *)
(***************************************************************************)
\* The ASCII code points str.isspace() accepts.
PyWhitespace == {9, 10, 11, 12, 13, 28, 29, 30, 31, 32}

RECURSIVE rstrip(_)
rstrip(s) ==
    IF s # <<>> /\ s[Len(s)] \in PyWhitespace
    THEN rstrip(SubSeq(s, 1, Len(s) - 1))
    ELSE s

RECURSIVE lstrip(_)
lstrip(s) ==
    IF s # <<>> /\ s[1] \in PyWhitespace
    THEN lstrip(Tail(s))
    ELSE s

strip(s) == lstrip(rstrip(s))

(***************************************************************************)
(* base64.b64encode and base64.b64decode (validate=False), octet by octet. *)
(***************************************************************************)
\* The character of a 6-bit value in the standard alphabet A-Z a-z 0-9 + /.
B64Char(v) ==
    IF v < 26 THEN 65 + v
    ELSE IF v < 52 THEN 97 + (v - 26)
    ELSE IF v < 62 THEN 48 + (v - 52)
    ELSE IF v = 62 THEN 43
    ELSE 47

\* The 6-bit value of a character, 64 for a character outside the alphabet.
B64Value(c) ==
    IF c \in 65..90 THEN c - 65
    ELSE IF c \in 97..122 THEN c - 71
    ELSE IF c \in 48..57 THEN c + 4
    ELSE IF c = 43 THEN 62
    ELSE IF c = 47 THEN 63
    ELSE 64

RECURSIVE b64encode(_)
b64encode(b) ==
    IF b = <<>> THEN <<>>
    ELSE IF Len(b) = 1 THEN
        << B64Char(b[1] \div 4), B64Char((b[1] % 4) * 16), 61, 61 >>
    ELSE IF Len(b) = 2 THEN
        << B64Char(b[1] \div 4),
           B64Char((b[1] % 4) * 16 + (b[2] \div 16)),
           B64Char((b[2] % 16) * 4), 61 >>
    ELSE
        << B64Char(b[1] \div 4),
           B64Char((b[1] % 4) * 16 + (b[2] \div 16)),
           B64Char((b[2] % 16) * 4 + (b[3] \div 64)),
           B64Char(b[3] % 64) >> \o b64encode(SubSeq(b, 4, Len(b)))

\* One character of binascii.a2b_base64 in its lenient mode: st is the
\* decoder's state (quad_pos, leftchar, pads, the octets so far, done).
A2bStep(st, c) ==
    IF st.done THEN st
    ELSE IF c = 61 THEN
        IF st.quad_pos >= 2
        THEN IF st.quad_pos + st.pads + 1 >= 4
             THEN [st EXCEPT !.pads = @ + 1, !.done = TRUE, !.quad_pos = 0]
             ELSE [st EXCEPT !.pads = @ + 1]
        ELSE st
    ELSE IF B64Value(c) = 64 THEN st
    ELSE LET v == B64Value(c) IN
        CASE st.quad_pos = 0 ->
                [st EXCEPT !.pads = 0, !.quad_pos = 1, !.leftchar = v]
          [] st.quad_pos = 1 ->
                [st EXCEPT !.pads = 0, !.quad_pos = 2, !.leftchar = v % 16,
                           !.out = Append(@, st.leftchar * 4 + (v \div 16))]
          [] st.quad_pos = 2 ->
                [st EXCEPT !.pads = 0, !.quad_pos = 3, !.leftchar = v % 4,
                           !.out = Append(@, st.leftchar * 16 + (v \div 4))]
          [] OTHER ->
                [st EXCEPT !.pads = 0, !.quad_pos = 0, !.leftchar = 0,
                           !.out = Append(@, st.leftchar * 64 + v)]

RECURSIVE A2bFold(_, _)
A2bFold(st, s) == IF s = <<>> THEN st ELSE A2bFold(A2bStep(st, s[1]), Tail(s))

\* base64.b64decode(s) of a str: [ok, v].  A non-ASCII str and a text whose
\* data characters do not fill whole quads raise (ValueError, binascii.Error).
b64decode(s) ==
    IF \E i \in 1..Len(s) : s[i] > 127 THEN [ok |-> FALSE, v |-> <<>>]
    ELSE LET st == A2bFold([quad_pos |-> 0, leftchar |-> 0, pads |-> 0,
                            out |-> <<>>, done |-> FALSE], s)
         IN  IF st.quad_pos # 0 THEN [ok |-> FALSE, v |-> <<>>]
             ELSE [ok |-> TRUE, v |-> st.out]

decode_image_data(data) ==
    IF data.t = "None" THEN PyNone
    ELSE IF data.t = "bytes" THEN data
    ELSE IF data.t = "str" THEN
        LET r == b64decode(data.v) IN IF r.ok THEN PyBytes(r.v) ELSE PyNone
    ELSE PyNone

(***************************************************************************)
(* Fixed texts of app.py.                                                  *)
(***************************************************************************)
MODEL_NAME ==
    << 109, 111, 100, 101, 108, 115, 47, 103, 101, 109, 105, 110, 105, 45,
       50, 46, 53, 45, 102, 108, 97, 115, 104, 45, 105, 109, 97, 103, 101,
       45, 112, 114, 101, 118, 105, 101, 119 >>

DEFAULT_PROMPT_SUFFIX ==
    << 40, 40, 109, 97, 115, 116, 101, 114, 112, 105, 101, 99, 101, 44, 32, 98, 101, 115, 116, 32,
       113, 117, 97, 108, 105, 116, 121, 44, 32, 117, 108, 116, 114, 97, 45, 100, 101, 116, 97, 105,
       108, 101, 100, 44, 32, 112, 104, 111, 116, 111, 114, 101, 97, 108, 105, 115, 116, 105, 99, 44,
       32, 56, 107, 44, 32, 115, 104, 97, 114, 112, 32, 102, 111, 99, 117, 115, 41, 41 >>

NO_TEXT_TOGGLE_SUFFIX ==
    << 40, 40, 110, 111, 32, 98, 97, 99, 107, 103, 114, 111, 117, 110, 100, 32, 116, 101, 120, 116,
       44, 32, 110, 111, 32, 115, 121, 109, 98, 111, 108, 115, 44, 32, 110, 111, 32, 109, 97, 114,
       107, 105, 110, 103, 115, 44, 32, 110, 111, 32, 108, 101, 116, 116, 101, 114, 115, 32, 97, 110,
       121, 119, 104, 101, 114, 101, 44, 32, 110, 111, 32, 116, 121, 112, 111, 103, 114, 97, 112, 104,
       121, 44, 32, 110, 111, 32, 115, 105, 103, 110, 98, 111, 97, 114, 100, 44, 32, 110, 111, 32,
       119, 97, 116, 101, 114, 109, 97, 114, 107, 44, 32, 110, 111, 32, 108, 111, 103, 111, 44, 32,
       110, 111, 32, 116, 101, 120, 116, 44, 32, 110, 111, 32, 115, 117, 98, 116, 105, 116, 108, 101,
       115, 44, 32, 110, 111, 32, 108, 97, 98, 101, 108, 115, 44, 32, 110, 111, 32, 112, 111, 115,
       116, 101, 114, 32, 101, 108, 101, 109, 101, 110, 116, 115, 44, 32, 110, 101, 117, 116, 114, 97,
       108, 32, 98, 97, 99, 107, 103, 114, 111, 117, 110, 100, 41, 41 >>

\* f"{a}\n{b}"
JoinLine(a, b) == a \o <<10>> \o b

\* A composition that joins the suffix to an empty prompt too.
prompt_always_joined(prompt, enforce_no_text) ==
    IF enforce_no_text
    THEN JoinLine(JoinLine(rstrip(prompt), DEFAULT_PROMPT_SUFFIX), NO_TEXT_TOGGLE_SUFFIX)
    ELSE JoinLine(rstrip(prompt), DEFAULT_PROMPT_SUFFIX)

\* main(): the text handed to generate_content as contents.
prompt_for_request(prompt, enforce_no_text) ==
    LET stripped_prompt == rstrip(prompt)
        base == IF stripped_prompt # <<>>
                THEN JoinLine(stripped_prompt, DEFAULT_PROMPT_SUFFIX)
                ELSE DEFAULT_PROMPT_SUFFIX
    IN  IF enforce_no_text THEN JoinLine(base, NO_TEXT_TOGGLE_SUFFIX) ELSE base


(***************************************************************************)
(* The objects of an API response.  An object is [t |-> "obj", shape,      *)
(* fields]: shape "attr" carries its fields as attributes, shape "dict" is *)
(* a dict carrying them as keys; a list is [t |-> "list", items].          *)
(***************************************************************************)
PyList(items) == [t |-> "list", items |-> items]

AttrObj(fields) == [t |-> "obj", shape |-> "attr", fields |-> fields]

DictObj(fields) == [t |-> "obj", shape |-> "dict", fields |-> fields]

NoFields == [k \in {} |-> PyNone]

\* getattr(x, name, None)
GetAttr(x, name) ==
    IF x.t = "obj" /\ x.shape = "attr" /\ name \in DOMAIN x.fields
    THEN x.fields[name]
    ELSE PyNone

\* isinstance(x, dict)
IsDict(x) == x.t = "obj" /\ x.shape = "dict"

\* d.get(name, default) of a dict d
DictGet(d, name, default) ==
    IF name \in DOMAIN d.fields THEN d.fields[name] ELSE default

\* x or []: the items of a non-empty list, none otherwise
OrEmptyList(x) == IF x.t = "list" THEN x.items ELSE <<>>

\* extract_parts(candidate): [raised, parts].  raised: the chained .get of
\* the dict branch met a content that has no .get (AttributeError).
extract_parts(candidate) ==
    LET content == GetAttr(candidate, "content")
        parts == IF content.t # "None" THEN GetAttr(content, "parts") ELSE PyNone
    IN  IF parts.t = "None" /\ IsDict(candidate)
        THEN LET c == DictGet(candidate, "content", DictObj(NoFields))
             IN  IF IsDict(c)
                 THEN [raised |-> FALSE,
                       parts |-> OrEmptyList(DictGet(c, "parts", PyList(<<>>)))]
                 ELSE [raised |-> TRUE, parts |-> <<>>]
        ELSE [raised |-> FALSE, parts |-> OrEmptyList(parts)]

\* The decoded inline image of one part, None when it has none.
PartImage(part) ==
    LET i0 == GetAttr(part, "inline_data")
        inline == IF i0.t = "None" /\ IsDict(part)
                  THEN DictGet(part, "inline_data", PyNone) ELSE i0
        d0 == GetAttr(inline, "data")
        data == IF d0.t = "None" /\ IsDict(inline)
                THEN DictGet(inline, "data", PyNone) ELSE d0
    IN  IF inline.t = "None" THEN PyNone ELSE decode_image_data(data)

RECURSIVE ScanParts(_)
ScanParts(parts) ==
    IF parts = <<>> THEN PyNone
    ELSE IF Truthy(PartImage(parts[1])) THEN PartImage(parts[1])
    ELSE ScanParts(Tail(parts))

RECURSIVE ScanCandidates(_)
ScanCandidates(candidates) ==
    IF candidates = <<>> THEN [raised |-> FALSE, image |-> PyNone]
    ELSE LET ep == extract_parts(candidates[1]) IN
         IF ep.raised THEN [raised |-> TRUE, image |-> PyNone]
         ELSE IF Truthy(ScanParts(ep.parts))
         THEN [raised |-> FALSE, image |-> ScanParts(ep.parts)]
         ELSE ScanCandidates(Tail(candidates))

\* collect_image_bytes(response): [raised, image]
collect_image_bytes(response) ==
    ScanCandidates(OrEmptyList(GetAttr(response, "candidates")))

\* The text of one part, None when it has none.
PartText(part) ==
    LET t0 == GetAttr(part, "text")
    IN  IF t0.t = "None" /\ IsDict(part) THEN DictGet(part, "text", PyNone) ELSE t0

\* The texts of the parts that have a non-empty one, in order.
RECURSIVE TextsOfParts(_)
TextsOfParts(parts) ==
    IF parts = <<>> THEN <<>>
    ELSE IF Truthy(PartText(parts[1]))
    THEN <<PartText(parts[1]).v>> \o TextsOfParts(Tail(parts))
    ELSE TextsOfParts(Tail(parts))

RECURSIVE TextsOfCandidates(_)
TextsOfCandidates(candidates) ==
    IF candidates = <<>> THEN [raised |-> FALSE, texts |-> <<>>]
    ELSE LET ep == extract_parts(candidates[1])
             rest == TextsOfCandidates(Tail(candidates))
         IN  IF ep.raised \/ rest.raised THEN [raised |-> TRUE, texts |-> <<>>]
             ELSE [raised |-> FALSE, texts |-> TextsOfParts(ep.parts) \o rest.texts]

\* collect_text_parts(response): [raised, texts]
collect_text_parts(response) ==
    TextsOfCandidates(OrEmptyList(GetAttr(response, "candidates")))

(***************************************************************************)
(* The secret store: the [auth] table and the top-level keys, each a       *)
(* function from the keys present to their values.                         *)
(***************************************************************************)
get_secret_value(store, key) ==
    IF key \in DOMAIN store.top THEN store.top[key] ELSE PyNone

_normalize_credential(value) ==
    IF value.t = "str" /\ strip(value.v) # <<>> THEN PyStr(strip(value.v)) ELSE PyNone

RECURSIVE _extract_credential(_, _)
_extract_credential(container, keys) ==
    IF keys = <<>> THEN PyNone
    ELSE IF keys[1] \in DOMAIN container /\ container[keys[1]].t # "None"
    THEN container[keys[1]]
    ELSE _extract_credential(container, Tail(keys))

\* get_secret_auth_credentials(): <<username, password>>, each normalised.
get_secret_auth_credentials(store) ==
    LET u0 == IF store.auth_present
              THEN _extract_credential(store.auth, <<"username", "id", "user", "name">>)
              ELSE PyNone
        p0 == IF store.auth_present
              THEN _extract_credential(store.auth, <<"password", "pass", "pwd">>)
              ELSE PyNone
        username == IF u0.t = "None"
                    THEN PyOr(get_secret_value(store, "USERNAME"), get_secret_value(store, "ID"))
                    ELSE u0
        password == IF p0.t = "None"
                    THEN PyOr(get_secret_value(store, "PASSWORD"), get_secret_value(store, "PASS"))
                    ELSE p0
    IN  << _normalize_credential(username), _normalize_credential(password) >>

\* "mezamashi", the built-in pair of app.py
DefaultCredential ==
    PyStr(<< 109, 101, 122, 97, 109, 97, 115, 104, 105 >>)

\* A resolver without the built-in pair.
get_configured_without_default(store) == get_secret_auth_credentials(store)

\* app.py get_configured_auth_credentials()
get_configured_auth_credentials(store) ==
    LET c == get_secret_auth_credentials(store) IN
    IF Truthy(c[1]) /\ Truthy(c[2]) THEN c
    ELSE << DefaultCredential, DefaultCredential >>

\* DEFAULT_GEMINI_API_KEY, from the secret store and the environment
DEFAULT_GEMINI_API_KEY(store, environ) ==
    PyOr(get_secret_value(store, "GEMINI_API_KEY"),
         PyOr(environ.GOOGLE_API_KEY, PyOr(environ.GEMINI_API_KEY, PyStr(<<>>))))

\* get_current_api_key(): the session override, else the default
get_current_api_key(ss, store, environ) ==
    LET api_key == IF "config_api_key" \in DOMAIN ss THEN ss["config_api_key"] ELSE PyNone
    IN  IF api_key.t = "str" /\ strip(api_key.v) # <<>>
        THEN PyStr(strip(api_key.v))
        ELSE DEFAULT_GEMINI_API_KEY(store, environ)

load_configured_api_key(ss, store, environ) ==
    PyOr(get_current_api_key(ss, store, environ), PyStr(<<>>))


(***************************************************************************)
(* st.session_state: a function from the keys set so far to their values.  *)
(***************************************************************************)
EmptySession == [k \in {} |-> FALSE]

Put(ss, k, val) == [x \in DOMAIN ss \cup {k} |-> IF x = k THEN val ELSE ss[x]]

\* uuid.uuid4().hex of the n-th value drawn: a fresh text of hex digits.
UuidHex(n) == << 48 + n >>

(***************************************************************************)
(* app.py: the login gate.                                                 *)
(***************************************************************************)
\* A gate that accepts a submission when either field is right.
credentials_match_either(input_username, input_password, username, password) ==
    PyStr(input_username) = username \/ PyStr(input_password) = password

\* The comparison of the submitted pair with the configured pair.
credentials_match(input_username, input_password, username, password) ==
    PyStr(input_username) = username /\ PyStr(input_password) = password

\* A gate that shows its form and forgets to stop the run.
require_login_no_stop(ss, store, in) ==
    [ss |-> IF "authenticated" \in DOMAIN ss THEN ss ELSE Put(ss, "authenticated", FALSE),
     gate |-> "pass", message |-> "none"]

\* require_login(): [ss, gate, message].  gate "pass" lets the run go on;
\* every other gate ends the run (st.stop, or st.rerun after a login).
require_login(ss, store, in) ==
    LET ss1 == IF "authenticated" \in DOMAIN ss THEN ss
               ELSE Put(ss, "authenticated", FALSE)
        cred == get_configured_auth_credentials(store)
    IN  IF ss1["authenticated"]
        THEN [ss |-> ss1, gate |-> "pass", message |-> "none"]
        ELSE IF ~Truthy(cred[1]) \/ ~Truthy(cred[2])
        THEN [ss |-> ss1, gate |-> "unconfigured", message |-> "info_login_unset"]
        ELSE IF in.trigger = "login"
        THEN IF credentials_match(in.input_username, in.input_password, cred[1], cred[2])
             THEN [ss |-> Put(ss1, "authenticated", TRUE), gate |-> "login_ok",
                   message |-> "success_logged_in"]
             ELSE [ss |-> ss1, gate |-> "mismatch", message |-> "error_id_or_pass_wrong"]
        ELSE [ss |-> ss1, gate |-> "form", message |-> "none"]

(***************************************************************************)
(* app.py: history.                                                        *)
(***************************************************************************)
app_init_history(ss) ==
    IF "history" \in DOMAIN ss THEN ss ELSE Put(ss, "history", <<>>)

\* The record main() builds from a successful generation.
NewRecord(n, image_bytes, prompt, enforce_no_text) ==
    [id |-> PyStr(<<105, 109, 103, 95>> \o UuidHex(n)),
     image_bytes |-> image_bytes,
     prompt |-> PyStr(strip(prompt)),
     model |-> PyStr(MODEL_NAME),
     no_text |-> PyBool(enforce_no_text)]

\* An insert at the tail.
history_append(history, record) == Append(history, record)

\* st.session_state.history.insert(0, record)
history_insert(history, record) == <<record>> \o history

\* render_clickable_image(): json.dumps is called and app.py never imports
\* json, so the call raises NameError.
render_clickable_image(image_bytes, element_id) == "NameError"

\* render_history(): [raised, shown]: shown counts the entries displayed in
\* full before the render ended.
RECURSIVE render_entries(_, _)
render_entries(history, shown) ==
    IF history = <<>> THEN [raised |-> FALSE, shown |-> shown]
    ELSE IF Truthy(history[1].image_bytes)
            /\ render_clickable_image(history[1].image_bytes, history[1].id) = "NameError"
    THEN [raised |-> TRUE, shown |-> shown]
    ELSE render_entries(Tail(history), shown + 1)

render_history(ss) == render_entries(ss["history"], 0)

RenderResult(ss) ==
    IF ss["history"] = <<>> THEN "empty"
    ELSE IF render_history(ss).raised THEN "NameError" ELSE "rendered"

(***************************************************************************)
(* app.py: main(), one page run.  in is what the browser sent: the         *)
(* trigger and the widget values, and what the API will answer.  n is the  *)
(* number of uuids drawn so far.                                           *)
(***************************************************************************)
Halted(ss, g, n) ==
    [ss |-> ss, gate |-> g.gate, message |-> g.message, outcome |-> "none",
     called |-> FALSE, request |-> <<>>, rendered |-> "not_reached", uuid |-> n]

\* The run from the Generate button on: it stops at the first failure.
Generated(ss, g, outcome, called, request, n) ==
    [ss |-> ss, gate |-> g.gate, message |-> g.message, outcome |-> outcome,
     called |-> called, request |-> request,
     rendered |-> IF outcome \in {"none", "success"} THEN RenderResult(ss)
                  ELSE "not_reached",
     uuid |-> n]

\* A check of the prompt that forgets to strip it.
prompt_is_empty(prompt) == prompt = <<>>

\* A check of the image that lets a response without an image through.
image_check_skipped(image) == FALSE

\* main(): "if not prompt.strip()"
prompt_is_blank(prompt) == strip(prompt) = <<>>

\* main(): "if not image_bytes"
image_missing(image) == ~Truthy(image)

main_after_gate(ss, g, store, environ, in, n) ==
    LET api_key == load_configured_api_key(ss, store, environ)
        request == prompt_for_request(in.prompt, in.enforce_no_text)
        img == collect_image_bytes(in.api.response)
    IN  IF in.trigger # "generate" THEN Generated(ss, g, "none", FALSE, <<>>, n)
        ELSE IF ~Truthy(api_key) THEN Generated(ss, g, "warning_api_key", FALSE, <<>>, n)
        ELSE IF prompt_is_blank(in.prompt) THEN Generated(ss, g, "warning_prompt", FALSE, <<>>, n)
        ELSE IF in.api.kind = "ClientError" THEN Generated(ss, g, "uncaught", FALSE, <<>>, n)
        ELSE IF in.api.kind = "ResourceExhausted" THEN Generated(ss, g, "error_quota", TRUE, request, n)
        ELSE IF in.api.kind = "GoogleAPICallError" THEN Generated(ss, g, "error_api_call", TRUE, request, n)
        ELSE IF in.api.kind = "Exception" THEN Generated(ss, g, "error_unexpected", TRUE, request, n)
        ELSE IF img.raised THEN Generated(ss, g, "uncaught", TRUE, request, n)
        ELSE IF image_missing(img.image) THEN Generated(ss, g, "error_no_image", TRUE, request, n)
        ELSE Generated(
                Put(ss, "history",
                    history_insert(ss["history"],
                                   NewRecord(n, img.image, in.prompt, in.enforce_no_text))),
                g, "success", TRUE, request, n + 1)

main(ss, store, environ, in, n) ==
    LET g == require_login(app_init_history(ss), store, in) IN
    IF g.gate = "pass" THEN main_after_gate(g.ss, g, store, environ, in, n)
    ELSE Halted(g.ss, g, n)


(***************************************************************************)
(* streamlit_auth_history_utils.py: the cookie controller.  The browser's  *)
(* cookies are [logged_in, browser_session_id].  A read (refresh, then     *)
(* get) has one of three outcomes: "value" returns the browser's cookie,   *)
(* "stale" returns None because the component has not delivered the        *)
(* cookies yet, "raise" raises.  A write is "ok" or "raise".               *)
(***************************************************************************)
ReadOutcomes == {"value", "stale", "raise"}

WriteOutcomes == {"ok", "raise"}

\* _get_cookie_controller(): the controller is kept in the session once built.
_get_cookie_controller(ss, controller_ok) ==
    IF ~controller_ok THEN [ss |-> ss, controller |-> FALSE]
    ELSE [ss |-> Put(ss, "_cookie_controller", TRUE), controller |-> TRUE]

\* attempts of restore_login_from_cookie when the caller gives none
DefaultAttempts == 2

Max(a, b) == IF a >= b THEN a ELSE b

\* The loop of restore_login_from_cookie from attempt i on: [result, made].
RECURSIVE RestoreLoop(_, _, _, _)
RestoreLoop(cookies, reads, i, last) ==
    IF i > last THEN [result |-> FALSE, made |-> last]
    ELSE IF reads[i] = "raise" THEN [result |-> FALSE, made |-> i]
    ELSE IF reads[i] = "value" /\ cookies.logged_in = PyStr(<<49>>)
    THEN [result |-> TRUE, made |-> i]
    ELSE RestoreLoop(cookies, reads, i + 1, last)

\* A restore that loops range(attempts) times, without the floor of one.
restore_login_without_floor(controller, cookies, reads, attempts) ==
    IF ~controller THEN [result |-> FALSE, made |-> 0]
    ELSE RestoreLoop(cookies, reads, 1, Max(0, attempts))

restore_login_from_cookie(controller, cookies, reads, attempts) ==
    IF ~controller THEN [result |-> FALSE, made |-> 0]
    ELSE RestoreLoop(cookies, reads, 1, Max(1, attempts))

\* persist_login_to_cookie(value): the cookies afterwards
persist_login_to_cookie(controller, cookies, value, write) ==
    IF ~controller \/ write = "raise" THEN cookies
    ELSE IF value THEN [cookies EXCEPT !.logged_in = PyStr(<<49>>)]
    ELSE [cookies EXCEPT !.logged_in = PyNone]

(***************************************************************************)
(* streamlit_auth_history_utils.py: require_basic_login(username,          *)
(* password): [ss, cookies, gate, message, made].                          *)
(***************************************************************************)
require_basic_login(ss, config, controller_ok, cookies, in) ==
    LET ss1 == IF "authenticated" \in DOMAIN ss THEN ss
               ELSE Put(ss, "authenticated", FALSE)
        c == IF ss1["authenticated"] THEN [ss |-> ss1, controller |-> FALSE]
             ELSE _get_cookie_controller(ss1, controller_ok)
        r == IF ss1["authenticated"] THEN [result |-> FALSE, made |-> 0]
             ELSE restore_login_from_cookie(c.controller, cookies, in.reads, DefaultAttempts)
        ss2 == IF r.result THEN Put(c.ss, "authenticated", TRUE) ELSE c.ss
        cred == IF config.login_args[1].t = "None" \/ config.login_args[2].t = "None"
                THEN get_secret_auth_credentials(config.store)
                ELSE config.login_args
    IN  IF ss2["authenticated"]
        THEN [ss |-> ss2, cookies |-> cookies, made |-> r.made, message |-> "none",
              gate |-> IF r.result THEN "restored" ELSE "pass"]
        ELSE IF ~Truthy(cred[1]) \/ ~Truthy(cred[2])
        THEN [ss |-> ss2, cookies |-> cookies, made |-> r.made,
              gate |-> "unconfigured", message |-> "info_login_unset"]
        ELSE IF in.trigger = "login"
        THEN IF credentials_match(in.input_username, in.input_password, cred[1], cred[2])
             THEN [ss |-> Put(ss2, "authenticated", TRUE),
                   cookies |-> persist_login_to_cookie(c.controller, cookies, TRUE, in.write),
                   made |-> r.made, gate |-> "login_ok", message |-> "success_logged_in"]
             ELSE [ss |-> ss2, cookies |-> cookies, made |-> r.made,
                   gate |-> "mismatch", message |-> "error_id_or_pass_wrong"]
        ELSE [ss |-> ss2, cookies |-> cookies, made |-> r.made,
              gate |-> "form", message |-> "none"]


(***************************************************************************)
(* streamlit_auth_history_utils.py: the browser session identifier and the *)
(* history files.  A file is named by the sanitised identifier; its        *)
(* content is [kind |-> "unreadable"], [kind |-> "malformed"] (not JSON)   *)
(* or [kind |-> "json", payload]: json.dump and json.load carry dicts,     *)
(* lists, texts, booleans and null over unchanged.                         *)
(***************************************************************************)
\* A get_browser_session_id that hands out the new identifier although the
\* cookie write failed.
get_browser_session_id_unwritten(controller, cks, create, read, write, n) ==
    LET session_id == IF read = "value" THEN cks.browser_session_id ELSE PyNone IN
    IF ~controller THEN [id |-> PyNone, cookies |-> cks, uuid |-> n]
    ELSE IF Truthy(session_id) THEN [id |-> session_id, cookies |-> cks, uuid |-> n]
    ELSE IF ~create THEN [id |-> PyNone, cookies |-> cks, uuid |-> n]
    ELSE [id |-> PyStr(UuidHex(n)),
          cookies |-> IF write = "raise" THEN cks
                      ELSE [cks EXCEPT !.browser_session_id = PyStr(UuidHex(n))],
          uuid |-> n + 1]

\* get_browser_session_id(create): [id, cookies, uuid].  A new identifier
\* is drawn before the cookie is written.
get_browser_session_id(controller, cks, create, read, write, n) ==
    LET session_id == IF read = "value" THEN cks.browser_session_id ELSE PyNone IN
    IF ~controller THEN [id |-> PyNone, cookies |-> cks, uuid |-> n]
    ELSE IF Truthy(session_id) THEN [id |-> session_id, cookies |-> cks, uuid |-> n]
    ELSE IF ~create THEN [id |-> PyNone, cookies |-> cks, uuid |-> n]
    ELSE IF write = "raise" THEN [id |-> PyNone, cookies |-> cks, uuid |-> n + 1]
    ELSE [id |-> PyStr(UuidHex(n)),
          cookies |-> [cks EXCEPT !.browser_session_id = PyStr(UuidHex(n))],
          uuid |-> n + 1]

\* ch.isalnum() or ch in {"-", "_"}, for ASCII
IsSafeChar(ch) == ch \in (48..57) \cup (65..90) \cup (97..122) \cup {45, 95}

\* _get_history_path(session_id): [raised, path].  os.makedirs raises when
\* the directory cannot be created; the path is named by the safe id.
_get_history_path(session_id, can_mkdir) ==
    [raised |-> ~can_mkdir, path |-> SelectSeq(session_id, IsSafeChar)]

_serialize_entry(entry) ==
    [t |-> "dict",
     id |-> entry.id,
     prompt |-> entry.prompt,
     model |-> entry.model,
     no_text |-> entry.no_text,
     image_b64 |-> IF entry.image_bytes.t = "bytes"
                   THEN PyStr(b64encode(entry.image_bytes.v))
                   ELSE PyNone]

_serialize_history(history) == [i \in 1..Len(history) |-> _serialize_entry(history[i])]

_deserialize_entry(entry) ==
    [id |-> entry.id,
     prompt |-> entry.prompt,
     model |-> entry.model,
     no_text |-> entry.no_text,
     image_bytes |-> IF Truthy(entry.image_b64)
                     THEN decode_image_data(entry.image_b64)
                     ELSE PyNone]

\* _deserialize_history(payload): [raised, history].  entry.get of an entry
\* that is not a dict raises AttributeError.
_deserialize_history(payload) ==
    IF \E i \in 1..Len(payload) : payload[i].t # "dict"
    THEN [raised |-> TRUE, history |-> <<>>]
    ELSE [raised |-> FALSE,
          history |-> [i \in 1..Len(payload) |-> _deserialize_entry(payload[i])]]

\* load_history_from_storage(): [status, history]: status "none" is a
\* returned None, "list" a returned list, "raised" an exception.
load_history_from_storage(controller, cks, fs, can_mkdir, read) ==
    LET session_id == get_browser_session_id(controller, cks, FALSE, read, "ok", 0).id
        p == _get_history_path(session_id.v, can_mkdir)
        none == [status |-> "none", history |-> <<>>]
    IN  IF ~Truthy(session_id) THEN none
        ELSE IF p.raised THEN [status |-> "raised", history |-> <<>>]
        ELSE IF p.path \notin DOMAIN fs THEN none
        ELSE IF fs[p.path].kind # "json" THEN none
        ELSE IF fs[p.path].payload.t # "dict" THEN none
        ELSE IF fs[p.path].payload.history.t # "list" THEN none
        ELSE LET d == _deserialize_history(fs[p.path].payload.history.items) IN
             IF d.raised THEN [status |-> "raised", history |-> <<>>]
             ELSE [status |-> "list", history |-> d.history]

\* The outcomes of writing the file: written, open() raised (the file is as
\* it was), json.dump raised (the file is left cut short).
DumpOutcomes == {"ok", "open_raises", "dump_raises"}

JsonFile(history) ==
    [kind |-> "json",
     payload |-> [t |-> "dict", updated_at |-> "utcnow",
                  history |-> PyList(_serialize_history(history))]]

\* persist_history_to_storage(history): [raised, wrote, id, cookies, files, uuid]
persist_history_to_storage(history, controller, cks, fs, can_mkdir, read, write, dump, n) ==
    LET g == get_browser_session_id(controller, cks, TRUE, read, write, n)
        p == _get_history_path(g.id.v, can_mkdir)
        out == [raised |-> FALSE, wrote |-> FALSE, id |-> g.id, cookies |-> g.cookies,
                files |-> fs, uuid |-> g.uuid]
    IN  IF ~Truthy(g.id) THEN out
        ELSE IF p.raised THEN [out EXCEPT !.raised = TRUE]
        ELSE IF dump = "open_raises" THEN out
        ELSE IF dump = "dump_raises"
        THEN [out EXCEPT !.files = (p.path :> [kind |-> "malformed"]) @@ fs]
        ELSE [out EXCEPT !.wrote = TRUE, !.files = (p.path :> JsonFile(history)) @@ fs]

\* clear_history_storage(): [raised, files]
clear_history_storage(controller, cks, fs, can_mkdir, read, remove) ==
    LET session_id == get_browser_session_id(controller, cks, FALSE, read, "ok", 0).id
        p == _get_history_path(session_id.v, can_mkdir)
    IN  IF ~Truthy(session_id) THEN [raised |-> FALSE, files |-> fs]
        ELSE IF p.raised THEN [raised |-> TRUE, files |-> fs]
        ELSE IF p.path \in DOMAIN fs /\ remove = "ok"
        THEN [raised |-> FALSE, files |-> [f \in DOMAIN fs \ {p.path} |-> fs[f]]]
        ELSE [raised |-> FALSE, files |-> fs]

\* An init_history that leaves the flag unset after a restore.
init_history_flag_forgotten(ss, controller_ok, cks, fs, can_mkdir, read1, read2) ==
    LET ss1 == IF "history" \in DOMAIN ss THEN ss ELSE Put(ss, "history", <<>>)
        c == _get_cookie_controller(ss1, controller_ok)
        r == load_history_from_storage(c.controller, cks, fs, can_mkdir, read1)
    IN  IF r.status = "list"
        THEN [ss |-> Put(c.ss, "history", r.history), load |-> "list",
              restored |-> TRUE, raised |-> FALSE]
        ELSE [ss |-> c.ss, load |-> r.status, restored |-> FALSE,
              raised |-> r.status = "raised"]

\* init_history() of the utils module: [ss, load, restored, raised].
init_history(ss, controller_ok, cks, fs, can_mkdir, read1, read2) ==
    LET ss1 == IF "history" \in DOMAIN ss THEN ss ELSE Put(ss, "history", <<>>)
        c == _get_cookie_controller(ss1, controller_ok)
        r == load_history_from_storage(c.controller, cks, fs, can_mkdir, read1)
        again == get_browser_session_id(c.controller, cks, FALSE, read2, "ok", 0).id
    IN  IF "_history_loaded" \in DOMAIN ss1 /\ ss1["_history_loaded"]
        THEN [ss |-> ss1, load |-> "not_called", restored |-> FALSE, raised |-> FALSE]
        ELSE IF r.status = "raised"
        THEN [ss |-> c.ss, load |-> "raised", restored |-> FALSE, raised |-> TRUE]
        ELSE IF r.status = "list"
        THEN [ss |-> Put(Put(c.ss, "history", r.history), "_history_loaded", TRUE),
              load |-> "list", restored |-> TRUE, raised |-> FALSE]
        ELSE IF again.t # "None" \/ ~c.controller
        THEN [ss |-> Put(c.ss, "_history_loaded", TRUE), load |-> "none",
              restored |-> FALSE, raised |-> FALSE]
        ELSE [ss |-> c.ss, load |-> "none", restored |-> FALSE, raised |-> FALSE]

(***************************************************************************)
(* The state.                                                              *)
(***************************************************************************)
VARIABLES
    variant,        \* which page script runs: "app" (app.py) or "lib" (a page
                    \* gated by require_basic_login of the utils module)
    config,         \* the deployment: secret store, environment, login arguments
    controller_ok,  \* whether a CookieController can be built
    session_state,  \* st.session_state of the current session
    cookies,        \* the browser's cookies
    uuid,           \* how many uuid4() values have been drawn
    run,            \* the last page run: what the browser sent and what it showed
    files,          \* the history directory: file name -> content
    dir_ok,         \* whether the history directory can be created
    op,             \* the last history-store operation and its result
    restored        \* how often init_history has put the stored history into
                    \* the current session: "never", "once", "again"

vars == << variant, config, controller_ok, session_state, cookies, uuid, run,
           files, dir_ok, op, restored >>

store_vars == << files, dir_ok, op, restored >>

(***************************************************************************)
(* Deployments.                                                            *)
(***************************************************************************)
EmptyTable == [k \in {} |-> PyNone]

NoArgs == << PyNone, PyNone >>

Configs ==
    { \* nothing in the secret store; the API key comes from the environment
      [store |-> [auth_present |-> FALSE, auth |-> EmptyTable, top |-> EmptyTable],
       environ |-> [GOOGLE_API_KEY |-> PyStr(<<107>>), GEMINI_API_KEY |-> PyNone],
       login_args |-> NoArgs],
      \* an [auth] table with padded values, and the API key as a secret
      [store |-> [auth_present |-> TRUE,
                  auth |-> ("username" :> PyStr(<<32, 117>>)) @@ ("password" :> PyStr(<<112, 32>>)),
                  top |-> ("GEMINI_API_KEY" :> PyStr(<<107>>))],
       environ |-> [GOOGLE_API_KEY |-> PyNone, GEMINI_API_KEY |-> PyNone],
       login_args |-> NoArgs],
      \* top-level ID and PASS, and no API key anywhere
      [store |-> [auth_present |-> FALSE, auth |-> EmptyTable,
                  top |-> ("ID" :> PyStr(<<117>>)) @@ ("PASS" :> PyStr(<<112>>))],
       environ |-> [GOOGLE_API_KEY |-> PyNone, GEMINI_API_KEY |-> PyNone],
       login_args |-> NoArgs],
      \* a blank user name in the store and a blank API key in the environment;
      \* the page hands require_basic_login its own pair
      [store |-> [auth_present |-> TRUE,
                  auth |-> ("username" :> PyStr(<<32, 32>>)) @@ ("password" :> PyStr(<<112>>)),
                  top |-> EmptyTable],
       environ |-> [GOOGLE_API_KEY |-> PyNone, GEMINI_API_KEY |-> PyStr(<<32>>)],
       login_args |-> << PyStr(<<117>>), PyStr(<<112>>) >>] }

(***************************************************************************)
(* What the browser can send, and what the API can answer.                 *)
(***************************************************************************)
\* "u", "p" and "mezamashi"
CredentialInputs == { <<117>>, <<112>>, DefaultCredential.v }

\* "", " ", "a", " a\n"
Prompts == { <<>>, <<32>>, <<97>>, <<32, 97, 10>> }

TextPart(text) == AttrObj(("text" :> PyStr(text)) @@ ("inline_data" :> PyNone))

ImagePart(data) ==
    AttrObj(("text" :> PyNone) @@ ("inline_data" :> AttrObj(("data" :> data))))

Candidate(parts) == AttrObj(("content" :> AttrObj(("parts" :> PyList(parts)))))

Response(candidates) == AttrObj(("candidates" :> PyList(candidates)))

Responses ==
    { AttrObj(("candidates" :> PyNone)),
      Response(<< AttrObj(("content" :> PyNone)) >>),
      Response(<< Candidate(<< TextPart(<<104, 105>>), ImagePart(PyBytes(<<137, 80>>)) >>) >>),
      Response(<< Candidate(<< ImagePart(PyStr(<<65>>)) >>),
                  Candidate(<< ImagePart(PyStr(<<84, 81, 61, 61>>)) >>) >>),
      Response(<< Candidate(<< ImagePart(PyBytes(<<>>)) >>) >>) }

ApiOutcomes ==
    { [kind |-> k] : k \in {"ClientError", "ResourceExhausted", "GoogleAPICallError", "Exception"} }
    \cup { [kind |-> "response", response |-> r] : r \in Responses }

NoReads == [i \in 1..DefaultAttempts |-> "stale"]

NoInput ==
    [trigger |-> "none", input_username |-> <<>>, input_password |-> <<>>,
     prompt |-> <<>>, enforce_no_text |-> FALSE, api |-> [kind |-> "none"],
     reads |-> NoReads, write |-> "ok"]

LoginInputs ==
    { [NoInput EXCEPT !.trigger = "login", !.input_username = u, !.input_password = p] :
        u \in CredentialInputs, p \in CredentialInputs }

GenerateInputs ==
    { [NoInput EXCEPT !.trigger = "generate", !.prompt = p[1], !.enforce_no_text = p[2],
                      !.api = p[3]] :
        p \in Prompts \X BOOLEAN \X ApiOutcomes }

AppInputs == {NoInput} \cup LoginInputs \cup GenerateInputs

LibInputs ==
    { [i EXCEPT !.reads = r, !.write = w] :
        i \in {NoInput} \cup LoginInputs,
        r \in [1..DefaultAttempts -> ReadOutcomes], w \in WriteOutcomes }

NoRun ==
    [in |-> NoInput, gate |-> "none", message |-> "none", outcome |-> "none",
     called |-> FALSE, request |-> <<>>, rendered |-> "not_reached", made |-> 0]

NoOp == [name |-> "none", load |-> "not_called", raised |-> FALSE, wrote |-> FALSE]

(***************************************************************************)
(* Page runs.                                                              *)
(***************************************************************************)
\* One run of app.py.  A successful login ends in st.rerun(): the script
\* runs again at once, with nothing pressed.
app_page_run(ss, cfg, in, n) ==
    LET r == main(ss, cfg.store, cfg.environ, in, n) IN
    IF r.gate = "login_ok"
    THEN [main(r.ss, cfg.store, cfg.environ, NoInput, n) EXCEPT
             !.gate = r.gate, !.message = r.message]
    ELSE r

Init ==
    /\ variant \in {"app", "lib"}
    /\ config \in Configs
    /\ controller_ok \in BOOLEAN
    /\ variant = "app" => controller_ok = FALSE
    /\ session_state = EmptySession
    /\ cookies = [logged_in |-> PyNone, browser_session_id |-> PyNone]
    /\ uuid = 0
    /\ run = NoRun
    /\ files = << >>
    /\ dir_ok = TRUE
    /\ op = NoOp
    /\ restored = "never"

PageRun ==
    /\ variant = "app"
    /\ \E in \in AppInputs :
         \E r \in {app_page_run(session_state, config, in, uuid)} :
         /\ r.uuid <= MaxUuid
         /\ session_state' = r.ss
         /\ uuid' = r.uuid
         /\ run' = [in |-> in, gate |-> r.gate, message |-> r.message,
                    outcome |-> r.outcome, called |-> r.called, request |-> r.request,
                    rendered |-> r.rendered, made |-> 0]
    /\ UNCHANGED << variant, config, controller_ok, cookies >>
    /\ UNCHANGED store_vars

LibPageRun ==
    /\ variant = "lib"
    /\ \E in \in LibInputs :
         \E r \in {require_basic_login(session_state, config, controller_ok, cookies, in)} :
         /\ session_state' = r.ss
         /\ cookies' = r.cookies
         /\ run' = [NoRun EXCEPT !.in = in, !.gate = r.gate, !.message = r.message,
                                 !.made = r.made]
    /\ UNCHANGED << variant, config, controller_ok, uuid >>
    /\ UNCHANGED store_vars

\* The browser opens the page anew: a fresh st.session_state, the same cookies.
NewSession ==
    /\ session_state' = EmptySession
    /\ run' = NoRun
    /\ UNCHANGED << variant, config, controller_ok, cookies, uuid >>
    /\ UNCHANGED store_vars

Next == PageRun \/ LibPageRun \/ NewSession

Spec == Init /\ [][Next]_vars


(***************************************************************************)
(* The prompt composition taken alone: every text up to MaxTextLen over    *)
(* a letter, a space and a newline, with the toggle off and on.            *)
(***************************************************************************)
TextChars == {97, 32, 10}

Texts == UNION { [1..n -> TextChars] : n \in 0..MaxTextLen }

InitCompose ==
    /\ variant = "compose"
    /\ config \in {c \in Configs : c.login_args = NoArgs /\ c.store.auth_present}
    /\ controller_ok = FALSE
    /\ session_state = EmptySession
    /\ cookies = [logged_in |-> PyNone, browser_session_id |-> PyNone]
    /\ uuid = 0
    /\ \E t \in Texts, b \in BOOLEAN :
         run = [NoRun EXCEPT !.in.trigger = "generate", !.in.prompt = t,
                             !.in.enforce_no_text = b]
    /\ files = << >>
    /\ dir_ok = TRUE
    /\ op = NoOp
    /\ restored = "never"

\* The text main() hands to the generation call for the prompt and toggle.
Compose ==
    /\ variant = "compose"
    /\ ~run.called
    /\ run' = [run EXCEPT !.called = TRUE,
                          !.request = prompt_for_request(run.in.prompt, run.in.enforce_no_text)]
    /\ UNCHANGED << variant, config, controller_ok, session_state, cookies, uuid >>
    /\ UNCHANGED store_vars

SpecCompose == InitCompose /\ [][Compose]_vars

(***************************************************************************)
(* The history store of streamlit_auth_history_utils.py as a state         *)
(* machine: one browser with its cookie, the history directory, and a host *)
(* page that calls init_history, changes the in-memory history and calls   *)
(* persist, load and clear.  Every cookie and file operation may fail.     *)
(***************************************************************************)
\* The cookie a returning browser holds: "s.1", whose file is "s1".
StoredSessionId == PyStr(<<115, 46, 49>>)

StoredPath == <<115, 49>>

StoredEntry(image_b64, prompt) ==
    [t |-> "dict", id |-> PyStr(<<105>>), prompt |-> prompt,
     model |-> PyStr(MODEL_NAME), no_text |-> PyBool(FALSE), image_b64 |-> image_b64]

FileOf(payload) == StoredPath :> [kind |-> "json", payload |-> payload]

HistoryPayload(history) == [t |-> "dict", updated_at |-> "utcnow", history |-> history]

\* What the history directory holds when the session starts.
InitialStores ==
    { << >>,
      StoredPath :> [kind |-> "unreadable"],
      StoredPath :> [kind |-> "malformed"],
      FileOf(PyList(<<>>)),
      FileOf(HistoryPayload(PyNone)),
      FileOf(HistoryPayload(PyList(<< PyInt(1) >>))),
      FileOf(HistoryPayload(PyList(<<>>))),
      FileOf(HistoryPayload(PyList(<< StoredEntry(PyStr(<<84, 81, 61, 61>>), PyStr(<<97>>)),
                                      StoredEntry(PyStr(<<65>>), PyNone) >>))) }

\* The records a host page puts into the history: images of one, two and
\* three bytes, an image of no bytes, and a record without an image.
HostRecords ==
    { [image_bytes |-> PyBytes(<<7>>), prompt |-> <<97>>, no_text |-> TRUE],
      [image_bytes |-> PyBytes(<<255, 0>>), prompt |-> <<98, 32, 98>>, no_text |-> FALSE],
      [image_bytes |-> PyBytes(<<77, 97, 110>>), prompt |-> <<97>>, no_text |-> FALSE],
      [image_bytes |-> PyBytes(<<>>), prompt |-> <<97>>, no_text |-> TRUE],
      [image_bytes |-> PyNone, prompt |-> <<99>>, no_text |-> FALSE] }

CookieReads == {"value", "raise"}

InitStore ==
    /\ variant = "store"
    /\ config \in {c \in Configs : c.login_args = NoArgs /\ c.store.auth_present}
    /\ controller_ok \in BOOLEAN
    /\ session_state = EmptySession
    /\ \E id \in {PyNone, StoredSessionId} :
         cookies = [logged_in |-> PyNone, browser_session_id |-> id]
    /\ uuid = 0
    /\ run = NoRun
    /\ files \in InitialStores
    /\ dir_ok \in BOOLEAN
    /\ op = NoOp
    /\ restored = "never"

\* A page run reaches init_history().  An exception ends the run.
InitHistoryRun ==
    /\ variant = "store"
    /\ \E read1 \in CookieReads, read2 \in CookieReads :
         \E r \in {init_history(session_state, controller_ok, cookies, files, dir_ok,
                                read1, read2)} :
            /\ session_state' = r.ss
            /\ op' = [name |-> "init_history", load |-> r.load, raised |-> r.raised,
                      wrote |-> FALSE]
            /\ restored' = IF ~r.restored THEN restored
                           ELSE IF restored = "never" THEN "once" ELSE "again"
    /\ UNCHANGED << variant, config, controller_ok, cookies, uuid, run, files, dir_ok >>

\* The host calls load_history_from_storage() itself.
LoadHistory ==
    /\ variant = "store"
    /\ \E read \in CookieReads :
         \E r \in {load_history_from_storage(controller_ok, cookies, files, dir_ok, read)} :
            op' = [name |-> "load", load |-> r.status, raised |-> r.status = "raised",
                   wrote |-> FALSE]
    /\ session_state' = _get_cookie_controller(session_state, controller_ok).ss
    /\ UNCHANGED << variant, config, controller_ok, cookies, uuid, run, files, dir_ok,
                    restored >>

\* The host puts a new record at the head of the in-memory history.
HostInsert ==
    /\ variant = "store"
    /\ "history" \in DOMAIN session_state
    /\ uuid + 1 <= MaxUuid
    /\ \E h \in HostRecords :
         session_state' =
            Put(session_state, "history",
                history_insert(session_state["history"],
                               NewRecord(uuid, h.image_bytes, h.prompt, h.no_text)))
    /\ uuid' = uuid + 1
    /\ op' = [NoOp EXCEPT !.name = "insert"]
    /\ UNCHANGED << variant, config, controller_ok, cookies, run, files, dir_ok, restored >>

\* The host persists the in-memory history.
Persist ==
    /\ variant = "store"
    /\ "history" \in DOMAIN session_state
    /\ \E read \in CookieReads, write \in WriteOutcomes, dump \in DumpOutcomes :
         \E r \in {persist_history_to_storage(session_state["history"], controller_ok,
                                              cookies, files, dir_ok, read, write, dump,
                                              uuid)} :
            /\ r.uuid <= MaxUuid
            /\ cookies' = r.cookies
            /\ files' = r.files
            /\ uuid' = r.uuid
            /\ op' = [name |-> "persist", load |-> "not_called", raised |-> r.raised,
                      wrote |-> r.wrote]
    /\ session_state' = _get_cookie_controller(session_state, controller_ok).ss
    /\ UNCHANGED << variant, config, controller_ok, run, dir_ok, restored >>

\* The host clears the stored history.
Clear ==
    /\ variant = "store"
    /\ \E read \in CookieReads, remove \in WriteOutcomes :
         \E r \in {clear_history_storage(controller_ok, cookies, files, dir_ok, read,
                                         remove)} :
            /\ files' = r.files
            /\ op' = [name |-> "clear", load |-> "not_called", raised |-> r.raised,
                      wrote |-> FALSE]
    /\ session_state' = _get_cookie_controller(session_state, controller_ok).ss
    /\ UNCHANGED << variant, config, controller_ok, cookies, uuid, run, dir_ok, restored >>

\* The browser opens a new session: session_state starts empty, the cookie
\* and the files stay.
StoreNewSession ==
    /\ variant = "store"
    /\ session_state # EmptySession
    /\ session_state' = EmptySession
    /\ op' = NoOp
    /\ restored' = "never"
    /\ UNCHANGED << variant, config, controller_ok, cookies, uuid, run, files, dir_ok >>

NextStore ==
    InitHistoryRun \/ LoadHistory \/ HostInsert \/ Persist \/ Clear \/ StoreNewSession

SpecStore == InitStore /\ [][NextStore]_vars

(***************************************************************************)
(* Extraction from an API response: collect_image_bytes and                *)
(* collect_text_parts applied to one response.  The responses carry every  *)
(* level (response, candidate, content, part, inline data) in attribute    *)
(* style or in mapping style, with levels missing, None or empty, and      *)
(* inline data that is bytes, valid base64, malformed base64 or empty.     *)
(***************************************************************************)
Shapes == {"attr", "dict"}

Obj(shape, fields) == [t |-> "obj", shape |-> shape, fields |-> fields]

\* b"\x89P", "TQ==" (b"M"), "A" (malformed), b"", None
InlineData ==
    { PyBytes(<<137, 80>>), PyStr(<<84, 81, 61, 61>>), PyStr(<<65>>), PyBytes(<<>>), PyNone }

ExtractParts ==
    { Obj(sh, "text" :> PyStr(<<104, 105>>)) : sh \in Shapes }
    \cup { Obj("attr", ("text" :> PyNone) @@
                       ("inline_data" :> Obj("attr", "data" :> d))) : d \in InlineData }
    \cup { Obj(sh[1], "inline_data" :> Obj(sh[2], "data" :> PyStr(<<84, 87, 70, 117>>))) :
             sh \in (Shapes \X Shapes) \ {<<"attr", "attr">>} }

PartLists ==
    {<<>>} \cup { <<p>> : p \in ExtractParts }
           \cup { <<p, q>> : p \in ExtractParts, q \in ExtractParts }

CandidateOf(shape, parts) ==
    Obj(shape, "content" :> Obj(shape, "parts" :> PyList(parts)))

\* Candidates with a level missing, None, or in the other style.
OddCandidates ==
    { Obj("attr", "content" :> PyNone),
      Obj("dict", "content" :> PyNone),
      Obj("dict", NoFields),
      Obj("dict", "content" :> Obj("dict", "parts" :> PyNone)),
      Obj("dict", "content" :> Obj("attr", "parts" :> PyList(<<>>))),
      Obj("attr", "content" :> Obj("dict", "parts" :> PyList(<<>>))) }

FirstCandidates ==
    { CandidateOf(sh, ps) : sh \in Shapes, ps \in PartLists } \cup OddCandidates

LaterCandidates ==
    { CandidateOf(sh, <<p>>) : sh \in Shapes, p \in ExtractParts } \cup OddCandidates

CandidateLists ==
    {<<>>} \cup { <<c>> : c \in FirstCandidates }
           \cup { <<c, d>> : c \in FirstCandidates, d \in LaterCandidates }

ExtractResponses ==
    { Obj(sh, "candidates" :> PyList(cs)) : sh \in Shapes, cs \in CandidateLists }
    \cup { Obj(sh, "candidates" :> PyNone) : sh \in Shapes }
    \cup { Obj(sh, NoFields) : sh \in Shapes }

InitExtract ==
    /\ variant = "extract"
    /\ config \in {c \in Configs : c.login_args = NoArgs /\ c.store.auth_present}
    /\ controller_ok = FALSE
    /\ session_state = EmptySession
    /\ cookies = [logged_in |-> PyNone, browser_session_id |-> PyNone]
    /\ uuid = 0
    /\ \E r \in ExtractResponses :
         run = [NoRun EXCEPT !.in.api = [kind |-> "response", response |-> r]]
    /\ files = << >>
    /\ dir_ok = TRUE
    /\ op = NoOp
    /\ restored = "never"

\* The two extractions main() can make from the response.
Extract ==
    /\ variant = "extract"
    /\ op.name = "none"
    /\ op' = [name |-> "extract",
              image |-> collect_image_bytes(run.in.api.response),
              texts |-> collect_text_parts(run.in.api.response)]
    /\ UNCHANGED << variant, config, controller_ok, session_state, cookies, uuid, run,
                    files, dir_ok, restored >>

SpecExtract == InitExtract /\ [][Extract]_vars

(***************************************************************************)
(* The session identifier: load_history_from_storage and                   *)
(* persist_history_to_storage seen from the cookie.  op records what the   *)
(* cookie read and the cookie write of the call did.  The browser may drop *)
(* the cookie between calls.                                               *)
(***************************************************************************)
SessionHistories ==
    { <<>>, << NewRecord(0, PyBytes(<<77, 97, 110>>), <<97>>, FALSE) >> }

SessionStores ==
    { << >>,
      FileOf(HistoryPayload(PyList(<< StoredEntry(PyStr(<<84, 81, 61, 61>>), PyStr(<<97>>)) >>))) }

InitSessionId ==
    /\ variant = "session_id"
    /\ config \in {c \in Configs : c.login_args = NoArgs /\ c.store.auth_present}
    /\ controller_ok \in BOOLEAN
    /\ \E h \in SessionHistories : session_state = ("history" :> h)
    /\ \E id \in {PyNone, StoredSessionId} :
         cookies = [logged_in |-> PyNone, browser_session_id |-> id]
    /\ uuid = 0
    /\ run = NoRun
    /\ files \in SessionStores
    /\ dir_ok \in BOOLEAN
    /\ op = NoOp
    /\ restored = "never"

\* load_history_from_storage()
SessionLoad ==
    /\ variant = "session_id"
    /\ \E read \in ReadOutcomes :
         \E r \in {load_history_from_storage(controller_ok, cookies, files, dir_ok, read)} :
            op' = [name |-> "load", load |-> r.status, raised |-> r.status = "raised",
                   wrote |-> FALSE, read |-> read, write |-> "none"]
    /\ session_state' = _get_cookie_controller(session_state, controller_ok).ss
    /\ UNCHANGED << variant, config, controller_ok, cookies, uuid, run, files, dir_ok,
                    restored >>

\* persist_history_to_storage(history)
SessionSave ==
    /\ variant = "session_id"
    /\ \E read \in ReadOutcomes, write \in WriteOutcomes, dump \in DumpOutcomes :
         \E r \in {persist_history_to_storage(session_state["history"], controller_ok,
                                              cookies, files, dir_ok, read, write, dump,
                                              uuid)} :
            /\ r.uuid <= MaxUuid
            /\ cookies' = r.cookies
            /\ files' = r.files
            /\ uuid' = r.uuid
            /\ op' = [name |-> "save", load |-> "not_called", raised |-> r.raised,
                      wrote |-> r.wrote, read |-> read, write |-> write]
    /\ session_state' = _get_cookie_controller(session_state, controller_ok).ss
    /\ UNCHANGED << variant, config, controller_ok, run, dir_ok, restored >>

\* The browser drops the cookie (it expires or the user clears it).
CookieDropped ==
    /\ variant = "session_id"
    /\ cookies.browser_session_id # PyNone
    /\ cookies' = [cookies EXCEPT !.browser_session_id = PyNone]
    /\ op' = [NoOp EXCEPT !.name = "cookie_dropped"]
    /\ UNCHANGED << variant, config, controller_ok, session_state, uuid, run, files,
                    dir_ok, restored >>

NextSessionId == SessionLoad \/ SessionSave \/ CookieDropped

SpecSessionId == InitSessionId /\ [][NextSessionId]_vars

(***************************************************************************)
(* The login cookie: page runs of require_basic_login, new sessions of the *)
(* same browser, and calls of restore_login_from_cookie(attempts=k) by the *)
(* host page.                                                              *)
(***************************************************************************)
\* The attempts a caller may pass: negative, zero, one, the default, more.
AttemptCounts == {-1, 0, 1, DefaultAttempts, DefaultAttempts + 1}

\* The outcomes of as many cookie reads as the largest count can make.
RestoreReads == [1..(DefaultAttempts + 1) -> ReadOutcomes]

InitLoginCookie == Init /\ variant = "lib"

RestoreCall ==
    /\ variant = "lib"
    /\ \E attempts \in AttemptCounts, reads \in RestoreReads :
         \E c \in {_get_cookie_controller(session_state, controller_ok)} :
         \E r \in {restore_login_from_cookie(c.controller, cookies, reads, attempts)} :
            /\ session_state' = c.ss
            /\ run' = ("attempts" :> attempts) @@ ("result" :> r.result) @@
                      [NoRun EXCEPT !.in.reads = reads, !.gate = "restore_call",
                                    !.made = r.made]
    /\ UNCHANGED << variant, config, controller_ok, cookies, uuid >>
    /\ UNCHANGED store_vars

NextLoginCookie == LibPageRun \/ NewSession \/ RestoreCall

SpecLoginCookie == InitLoginCookie /\ [][NextLoginCookie]_vars

(***************************************************************************)
(* Properties.                                                             *)
(***************************************************************************)
Authenticated(ss) == "authenticated" \in DOMAIN ss /\ ss["authenticated"]

HistoryOf(ss) == IF "history" \in DOMAIN ss THEN ss["history"] ELSE <<>>

\* The pair the running gate compares a submission with.
ConfiguredPair ==
    IF variant = "app" THEN get_configured_auth_credentials(config.store)
    ELSE IF config.login_args = NoArgs THEN get_secret_auth_credentials(config.store)
    ELSE config.login_args

PairConfigured == Truthy(ConfiguredPair[1]) /\ Truthy(ConfiguredPair[2])

NoPairAnywhere ==
    /\ config.login_args = NoArgs
    /\ ~( /\ Truthy(get_secret_auth_credentials(config.store)[1])
          /\ Truthy(get_secret_auth_credentials(config.store)[2]) )

C3_AuthGuardsGeneration ==
    [][ /\ (run'.called \/ Len(HistoryOf(session_state')) > Len(HistoryOf(session_state)))
            => (Authenticated(session_state) /\ Authenticated(session_state'))
        /\ (run'.gate # "none" /\ ~Authenticated(session_state'))
            => /\ run'.gate \in {"form", "mismatch", "unconfigured"}
               /\ ~run'.called
               /\ run'.outcome = "none"
               /\ run'.rendered = "not_reached"
               /\ HistoryOf(session_state') = HistoryOf(session_state) ]_vars

\* C3 witness: an authenticated run has called the API and stored a record.
C3_Witness ==
    /\ variant = "app"
    /\ run.called
    /\ run.outcome = "success"
    /\ Authenticated(session_state)
    /\ Len(HistoryOf(session_state)) > 0

\* The API key main() resolves is absent or empty.
ApiKeyEmpty ==
    LET k == load_configured_api_key(session_state, config.store, config.environ)
    IN  k.t = "None" \/ k.v = <<>>

\* C4: Generate pressed in an authenticated session with the API key
\* absent or empty, or with an empty or whitespace-only prompt, ends in a
\* warning: no call is made and the history is unchanged.
C4_RejectsWithoutKeyOrPrompt ==
    [][ ( /\ variant = "app"
          /\ run'.in.trigger = "generate"
          /\ Authenticated(session_state)
          /\ (ApiKeyEmpty \/ \A i \in 1..Len(run'.in.prompt) : run'.in.prompt[i] \in PyWhitespace) )
        => /\ run'.outcome \in {"warning_api_key", "warning_prompt"}
           /\ ~run'.called
           /\ run'.request = <<>>
           /\ HistoryOf(session_state') = HistoryOf(session_state) ]_vars

\* C4 witness: a whitespace-only prompt was rejected with the API key set.
C4_Witness ==
    /\ run.in.trigger = "generate"
    /\ run.in.prompt = <<32>>
    /\ run.outcome = "warning_prompt"
    /\ ~ApiKeyEmpty

\* The API raised, or answered with no non-empty image.
ApiFails(api) ==
    \/ api.kind \in {"ResourceExhausted", "GoogleAPICallError", "Exception"}
    \/ /\ api.kind = "response"
       /\ ~collect_image_bytes(api.response).raised
       /\ collect_image_bytes(api.response).image \in {PyNone, PyBytes(<<>>)}

\* C5: a generate interaction in which the API raises (quota, API call
\* error, anything else) or answers without a non-empty image halts the
\* run and leaves the history list exactly as it was.
C5_FailureKeepsHistory ==
    [][ ( /\ variant = "app"
          /\ run'.in.trigger = "generate"
          /\ Authenticated(session_state)
          /\ ApiFails(run'.in.api) )
        => /\ run'.outcome \in {"warning_api_key", "warning_prompt", "error_quota",
                                "error_api_call", "error_unexpected", "error_no_image"}
           /\ run'.rendered = "not_reached"
           /\ session_state'["history"] = session_state["history"] ]_vars

\* C5 witness: the API answered without an image while the history held a
\* record.
C5_Witness ==
    /\ run.outcome = "error_no_image"
    /\ run.called
    /\ Len(HistoryOf(session_state)) > 0

\* The generation of a run with these inputs succeeds.
GenerationSucceeds(in) ==
    /\ in.trigger = "generate"
    /\ ~ApiKeyEmpty
    /\ \E i \in 1..Len(in.prompt) : in.prompt[i] \notin PyWhitespace
    /\ in.api.kind = "response"
    /\ collect_image_bytes(in.api.response).image \notin {PyNone, PyBytes(<<>>)}

\* The records of a history carry ids drawn later the nearer they are to
\* the head.
NewestFirst(h) ==
    \A i, j \in 1..Len(h) : i < j => h[i].id.v[Len(h[i].id.v)] > h[j].id.v[Len(h[j].id.v)]

\* C6: a successful generation puts exactly one new record, built from the
\* run's prompt, toggle and image, at index 0 and keeps the earlier records
\* and their order; nothing else changes the list of a session, so it
\* holds the session's successful generations newest first.
C6_PrependsRecord ==
    /\ [][ /\ ( /\ variant = "app"
                /\ Authenticated(session_state)
                /\ GenerationSucceeds(run'.in) )
              => /\ Len(session_state'["history"]) = Len(session_state["history"]) + 1
                 /\ Tail(session_state'["history"]) = session_state["history"]
                 /\ Head(session_state'["history"]).image_bytes
                        = collect_image_bytes(run'.in.api.response).image
                 /\ Head(session_state'["history"]).prompt = PyStr(strip(run'.in.prompt))
                 /\ Head(session_state'["history"]).model = PyStr(MODEL_NAME)
                 /\ Head(session_state'["history"]).no_text = PyBool(run'.in.enforce_no_text)
           /\ ( /\ "history" \in DOMAIN session_state
                /\ "history" \in DOMAIN session_state'
                /\ session_state'["history"] # session_state["history"] )
              => (Authenticated(session_state) /\ GenerationSucceeds(run'.in)) ]_vars
    /\ [] NewestFirst(HistoryOf(session_state))

\* C6 witness: a second generation has succeeded in the session.
C6_Witness ==
    /\ run.outcome = "success"
    /\ Len(HistoryOf(session_state)) = 2

\* Two histories of the same length and order whose records agree on the
\* prompt, the model tag, the no_text flag and the image payload.
SameRecords(loaded, persisted) ==
    /\ Len(loaded) = Len(persisted)
    /\ \A i \in 1..Len(persisted) :
         /\ loaded[i].prompt = persisted[i].prompt
         /\ loaded[i].model = persisted[i].model
         /\ loaded[i].no_text = persisted[i].no_text
         /\ loaded[i].image_bytes = persisted[i].image_bytes

\* C7: once persist_history_to_storage has written the session's history,
\* load_history_from_storage for the same session identifier returns a list
\* of the same length and order whose records have the same prompt, model
\* tag and no_text flag and an image payload equal byte for byte.
C7_PersistLoadRoundTrip ==
    (op.name = "persist" /\ op.wrote) =>
        LET l == load_history_from_storage(controller_ok, cookies, files, dir_ok, "value")
        IN  l.status = "list" /\ SameRecords(l.history, session_state["history"])

\* C8: within one session init_history puts the stored history into the
\* session at most once, and a run of init_history after that restore
\* leaves the in-memory history as it is.
C8_RestoresAtMostOnce ==
    [][ /\ restored' # "again"
        /\ (restored = "once" /\ restored' = "once" /\ op'.name = "init_history")
              => session_state'["history"] = session_state["history"] ]_vars

\* A run of init_history after the restore and after a host insert: the
\* inserted record is still at the head.
C8_Witness ==
    /\ restored = "once"
    /\ op.name = "init_history"
    /\ op.load = "not_called"
    /\ Len(session_state["history"]) >= 2
    /\ Len(session_state["history"][1].id.v) > 1
    /\ Len(session_state["history"][Len(session_state["history"])].id.v) = 1

\* C9: load_history_from_storage never raises; with no stored file, an
\* unreadable or malformed file, a payload of the wrong shape, entries that
\* are not record objects or a history directory that cannot be created it
\* returns None.
C9_LoadNeverRaises ==
    op.name = "load" => (~op.raised /\ op.load \in {"none", "list"})

\* C10: the text handed to the generation call is the prompt without its
\* trailing whitespace, a newline and the quality suffix, then, with the
\* toggle on, a newline and the no-text suffix; a prompt that is empty once
\* trimmed contributes nothing, not even the newline.
C10_ComposedText ==
    run.called =>
        \E k \in 0..Len(run.in.prompt) :
            /\ \A i \in (k + 1)..Len(run.in.prompt) : run.in.prompt[i] \in PyWhitespace
            /\ k > 0 => run.in.prompt[k] \notin PyWhitespace
            /\ run.request =
                  (IF k > 0 THEN SubSeq(run.in.prompt, 1, k) \o <<10>> ELSE <<>>)
                  \o DEFAULT_PROMPT_SUFFIX
                  \o (IF run.in.enforce_no_text THEN <<10>> \o NO_TEXT_TOGGLE_SUFFIX ELSE <<>>)

\* C10 witness: a prompt with leading and trailing whitespace was composed
\* with the toggle on.
C10_Witness ==
    /\ run.called
    /\ run.in.prompt = <<32, 97, 10>>
    /\ run.in.enforce_no_text
    /\ Len(run.request) = 2 + 1 + Len(DEFAULT_PROMPT_SUFFIX) + 1 + Len(NO_TEXT_TOGGLE_SUFFIX)

(***************************************************************************)
(* The contents of a response, read without regard to the style of a       *)
(* level: a field is an attribute or a key.                                *)
(***************************************************************************)
Field(x, name) ==
    IF x.t = "obj" /\ name \in DOMAIN x.fields THEN x.fields[name] ELSE PyNone

ExtractedResponse == run.in.api.response

CandidatesOf(response) == OrEmptyList(Field(response, "candidates"))

PartsOf(candidate) == OrEmptyList(Field(Field(candidate, "content"), "parts"))

RECURSIVE PartsInOrder(_)
PartsInOrder(candidates) ==
    IF candidates = <<>> THEN <<>>
    ELSE PartsOf(candidates[1]) \o PartsInOrder(Tail(candidates))

\* What the inline data of a part decodes to; None when the part has no
\* inline data or the data does not decode.
Decoded(part) ==
    IF Field(part, "inline_data").t = "None" THEN PyNone
    ELSE decode_image_data(Field(Field(part, "inline_data"), "data"))

RECURSIVE FirstDecoded(_)
FirstDecoded(parts) ==
    IF parts = <<>> THEN PyNone
    ELSE IF Decoded(parts[1]).t # "None" THEN Decoded(parts[1])
    ELSE FirstDecoded(Tail(parts))

\* C11: collect_image_bytes returns the image of the first part, in
\* encounter order over all candidates and their parts, whose inline data
\* decodes successfully; parts with malformed base64 are skipped, and a
\* later image is never returned when an earlier part decodes.
C11_FirstDecodedImage ==
    op.name = "extract" =>
        /\ ~op.image.raised
        /\ op.image.image = FirstDecoded(PartsInOrder(CandidatesOf(ExtractedResponse)))

\* The same contents with every level in one style.
ReshapePart(part, shape) ==
    Obj(shape, [k \in DOMAIN part.fields |->
                  IF part.fields[k].t = "obj" THEN Obj(shape, part.fields[k].fields)
                  ELSE part.fields[k]])

ReshapeContent(content, shape) ==
    Obj(shape, [k \in DOMAIN content.fields |->
                  IF content.fields[k].t = "list"
                  THEN PyList([i \in 1..Len(content.fields[k].items) |->
                                 ReshapePart(content.fields[k].items[i], shape)])
                  ELSE content.fields[k]])

ReshapeCandidate(candidate, shape) ==
    Obj(shape, [k \in DOMAIN candidate.fields |->
                  IF candidate.fields[k].t = "obj"
                  THEN ReshapeContent(candidate.fields[k], shape)
                  ELSE candidate.fields[k]])

ReshapeResponse(response, shape) ==
    Obj(shape, [k \in DOMAIN response.fields |->
                  IF response.fields[k].t = "list"
                  THEN PyList([i \in 1..Len(response.fields[k].items) |->
                                 ReshapeCandidate(response.fields[k].items[i], shape)])
                  ELSE response.fields[k]])

\* C12: image and text extraction never fail, whatever the style of each
\* level; a response without candidates gives no image and no texts, a
\* candidate without content contributes nothing, and the result is the
\* one the attribute-shaped response with the same contents gives.
C12_ExtractionTolerant ==
    op.name = "extract" =>
        /\ ~op.image.raised
        /\ ~op.texts.raised
        /\ CandidatesOf(ExtractedResponse) = <<>> =>
              (op.image.image = PyNone /\ op.texts.texts = <<>>)
        /\ op.image = collect_image_bytes(ReshapeResponse(ExtractedResponse, "attr"))
        /\ op.texts = collect_text_parts(ReshapeResponse(ExtractedResponse, "attr"))

SessionCookie == cookies.browser_session_id

\* The step mints the next identifier and leaves it in the cookie.
MintsIntoCookie ==
    /\ uuid' = uuid + 1
    /\ cookies' = [cookies EXCEPT !.browser_session_id = PyStr(UuidHex(uuid))]

\* The step writes the history to the file named by the identifier id, and
\* to no other file.
WritesFileOf(id) ==
    LET path == SelectSeq(id.v, IsSafeChar) IN
    /\ id.t = "str"
    /\ DOMAIN files' = DOMAIN files \cup {path}
    /\ files'[path] = JsonFile(session_state["history"])
    /\ \A f \in DOMAIN files \ {path} : files'[f] = files[f]

\* What a load does to the cookie, and a save when the cookie is absent.
LoadAndAbsentSave ==
    /\ op'.name = "load" => (cookies' = cookies /\ uuid' = uuid)
    /\ (op'.name = "load" /\ SessionCookie = PyNone) => op'.load = "none"
    /\ (op'.name = "save" /\ SessionCookie = PyNone /\ controller_ok /\ op'.write = "ok")
          => MintsIntoCookie
    /\ (op'.name = "save" /\ SessionCookie = PyNone /\ op'.wrote)
          => (MintsIntoCookie /\ WritesFileOf(PyStr(UuidHex(uuid))))

\* C13 as stated: with the cookie absent a load returns no history, mints
\* nothing and writes no cookie, and a save mints an identifier, writes it
\* to the cookie and writes the file named by it; with the cookie present
\* neither a load nor a save changes the cookie.
C13_CookiePresentUnchanged ==
    [][ /\ LoadAndAbsentSave
        /\ (op'.name \in {"load", "save"} /\ SessionCookie # PyNone) => cookies' = cookies
      ]_vars

\* C13, amended: as above, but with the cookie present a save leaves it
\* unchanged when the cookie read returns it; when the read fails or
\* returns nothing the save takes the cookie for absent and replaces it by
\* a newly minted identifier.  A written file is always the one named by
\* the identifier the cookie holds after the save.
C13_SessionIdMintedOnSave ==
    [][ /\ LoadAndAbsentSave
        /\ (op'.name = "save" /\ SessionCookie # PyNone /\ op'.read = "value")
              => (cookies' = cookies /\ uuid' = uuid)
        /\ (op'.name = "save" /\ SessionCookie # PyNone /\ op'.read # "value"
              /\ controller_ok /\ op'.write = "ok") => MintsIntoCookie
        /\ (op'.name = "save" /\ cookies' # cookies) => MintsIntoCookie
        /\ (op'.name = "save" /\ op'.wrote) => WritesFileOf(cookies'.browser_session_id)
      ]_vars

\* A save has minted an identifier, written it to the cookie and written
\* the file of that identifier.
C13_Witness ==
    /\ variant = "session_id"
    /\ op.name = "save"
    /\ op.wrote
    /\ uuid > 0
    /\ SessionCookie = PyStr(UuidHex(uuid - 1))
    /\ UuidHex(uuid - 1) \in DOMAIN files

LoginFlag == PyStr(<<49>>)

\* Some read among the first `last` returns the cookie, and none before it
\* raises.
ReadSucceeds(reads, last) ==
    \E i \in 1..last :
        /\ reads[i] = "value"
        /\ \A j \in 1..(i - 1) : reads[j] = "stale"

\* C14: a successful credential login with a working cookie store leaves
\* the flag in the login cookie, the flag stays, and a fresh session whose
\* cookie read succeeds is authenticated without the form; a restore makes
\* at most max(1, attempts) reads and returns true exactly when a read saw
\* the flag before any read raised.
C14_LoginCookieRestore ==
    [][ /\ (run'.gate = "login_ok" /\ controller_ok /\ run'.in.write = "ok")
              => cookies'.logged_in = LoginFlag
        /\ cookies.logged_in = LoginFlag => cookies'.logged_in = LoginFlag
        /\ (/\ run'.gate \notin {"none", "restore_call"}
            /\ ~Authenticated(session_state)
            /\ controller_ok
            /\ cookies.logged_in = LoginFlag
            /\ ReadSucceeds(run'.in.reads, Max(1, DefaultAttempts)))
              => (/\ Authenticated(session_state')
                  /\ run'.gate = "restored"
                  /\ run'.message = "none")
        /\ run'.gate = "restore_call"
              => (/\ run'.made <= Max(1, run'.attempts)
                  /\ run'.result <=>
                        (/\ controller_ok
                         /\ cookies.logged_in = LoginFlag
                         /\ ReadSucceeds(run'.in.reads, Max(1, run'.attempts))))
      ]_vars

\* A fresh session of a browser that logged in before is let in on its
\* second cookie read, without the form.
C14_Witness ==
    /\ variant = "lib"
    /\ run.gate = "restored"
    /\ run.made = 2
    /\ cookies.logged_in = LoginFlag
    /\ Authenticated(session_state)

\* C15: in app.py the page run in which a generation succeeds, and every
\* later page run of the session that reaches render_history, completes the
\* render without raising: every record of the non-empty history is
\* displayed, with its image.
C15_RenderCompletes ==
    (/\ variant = "app"
     /\ run.outcome \in {"success", "none"}
     /\ run.rendered # "not_reached"
     /\ HistoryOf(session_state) # <<>>)
        => (/\ run.rendered = "rendered"
            /\ render_history(session_state).shown = Len(HistoryOf(session_state)))

=============================================================================
